---- MODULE Spec2Model ----
(***************************************************************************)
(* SoloCraft: missions, user progress (XP, level, tickets) and the         *)
(* punishment engine, modelled from data_models.py, storage_manager.py and *)
(* the handlers of solocraft_gui.py.                                       *)
(*                                                                         *)
(* Text is a sequence of one-character strings, so that lower(), the       *)
(* substring tests and the regular expression of apply_punishment are      *)
(* computed the way the code computes them.  Python's None is the option   *)
(* record with some = FALSE.  Timestamps are ticks of the clock `now`.     *)
(***************************************************************************)
EXTENDS Integers, Sequences, FiniteSets, TLC

VARIABLES
    up,        \* the process-wide UserProgress object (SoloCraftApp.user_progress)
    missions,  \* content of missions.json: the stored list of mission records
    next_id,   \* number of mission ids handed out so far (uuid4 never repeats)
    now,       \* the wall clock read by datetime.now()
    last,      \* the last step: operation, inputs, result, UserProgress before it
    progress_file, \* content of user_progress.json: the UserProgress saved last
    running,   \* whether the application window is open
    debts,     \* content of insight_debts.json: the stored list of insight debts
    next_debt, \* number of insight debt ids handed out so far
    disk,      \* one backing file seen as JSON text: which file, its state, its data
    io         \* the last StorageManager call on disk: arguments, result, file before

vars == <<up, missions, next_id, now, last, progress_file, running, debts, next_debt,
          disk, io>>

\* what the steps on UserProgress and on missions leave alone
others == <<running, debts, next_debt, disk, io>>

----------------------------------------------------------------------------
(* Bounds of the model *)

MaxXp == 120
MaxMissions == 2
MaxTime == 1
MaxDebts == 2
MaxWeeks == 2
MaxStored == 2

----------------------------------------------------------------------------
(* Option values: Python's None *)

Some(v) == [some |-> TRUE, val |-> v]
NoText == [some |-> FALSE, val |-> <<>>]
NoTime == [some |-> FALSE, val |-> 0]

\* mutant: tests `is not None` instead of truthiness
Truthy_NotNone(text) == text.some

\* Python truthiness of an optional string: None and "" are falsy
Truthy(text) == text.some /\ text.val # <<>>

Max(a, b) == IF a >= b THEN a ELSE b
Min(a, b) == IF a <= b THEN a ELSE b

----------------------------------------------------------------------------
(* Strings: str.lower(), the `in` operator, re.search(r'(\d+)\s*xp') *)

LowerChar(c) ==
    CASE c = "A" -> "a" [] c = "B" -> "b" [] c = "C" -> "c" [] c = "D" -> "d"
      [] c = "E" -> "e" [] c = "F" -> "f" [] c = "G" -> "g" [] c = "H" -> "h"
      [] c = "I" -> "i" [] c = "J" -> "j" [] c = "K" -> "k" [] c = "L" -> "l"
      [] c = "M" -> "m" [] c = "N" -> "n" [] c = "O" -> "o" [] c = "P" -> "p"
      [] c = "Q" -> "q" [] c = "R" -> "r" [] c = "S" -> "s" [] c = "T" -> "t"
      [] c = "U" -> "u" [] c = "V" -> "v" [] c = "W" -> "w" [] c = "X" -> "x"
      [] c = "Y" -> "y" [] c = "Z" -> "z" [] OTHER -> c

StrLower(s) == [i \in 1..Len(s) |-> LowerChar(s[i])]

\* pat in s
Contains(s, pat) ==
    \E i \in 1..(Len(s) - Len(pat) + 1) : SubSeq(s, i, i + Len(pat) - 1) = pat

IsDigit(c) == c \in {"0", "1", "2", "3", "4", "5", "6", "7", "8", "9"}
IsSpace(c) == c \in {" ", "\t"}

DigitVal(c) ==
    CASE c = "0" -> 0 [] c = "1" -> 1 [] c = "2" -> 2 [] c = "3" -> 3
      [] c = "4" -> 4 [] c = "5" -> 5 [] c = "6" -> 6 [] c = "7" -> 7
      [] c = "8" -> 8 [] c = "9" -> 9

\* int(digits), base ten
RECURSIVE ParseInt(_)
ParseInt(ds) ==
    IF ds = <<>> THEN 0
    ELSE 10 * ParseInt(SubSeq(ds, 1, Len(ds) - 1)) + DigitVal(ds[Len(ds)])

\* index of the last digit of the maximal run of digits that starts at i
RECURSIVE DigitsEnd(_, _)
DigitsEnd(s, i) ==
    IF i + 1 <= Len(s) /\ IsDigit(s[i + 1]) THEN DigitsEnd(s, i + 1) ELSE i

\* first index >= k that holds no whitespace (Len(s) + 1 if there is none)
RECURSIVE SkipSpaces(_, _)
SkipSpaces(s, k) ==
    IF k <= Len(s) /\ IsSpace(s[k]) THEN SkipSpaces(s, k + 1) ELSE k

\* (\d+)\s*xp matches at i. \d+ is greedy; giving digits back never helps,
\* because the character after a shorter run is a digit, which neither \s*
\* nor "x" accepts.
XpMatchAt(s, i) ==
    /\ IsDigit(s[i])
    /\ LET k == SkipSpaces(s, DigitsEnd(s, i) + 1)
       IN  k + 1 <= Len(s) /\ s[k] = "x" /\ s[k + 1] = "p"

\* re.search: the leftmost match; its group(1), or None
XpMatch(s) ==
    LET starts == {i \in 1..Len(s) : XpMatchAt(s, i)}
    IN  IF starts = {} THEN NoText
        ELSE LET i == CHOOSE a \in starts : \A b \in starts : a <= b
             IN  Some(SubSeq(s, i, DigitsEnd(s, i)))

\* xp_loss = int(xp_match.group(1)) if xp_match else 10
XpLoss(lower) ==
    LET m == XpMatch(lower) IN IF m.some THEN ParseInt(m.val) ELSE 10

----------------------------------------------------------------------------
(* Words and punishment texts used as inputs *)

sp == <<" ">>
w_lose == <<"l", "o", "s", "e">>
w_xp == <<"x", "p">>
w_XP == <<"X", "P">>
w_experience == <<"e", "x", "p", "e", "r", "i", "e", "n", "c", "e">>
w_ticket == <<"t", "i", "c", "k", "e", "t">>
w_Ticket == <<"T", "i", "c", "k", "e", "t">>
w_help == <<"h", "e", "l", "p">>
w_Help == <<"H", "e", "l", "p">>
w_tutorial == <<"t", "u", "t", "o", "r", "i", "a", "l">>
w_and == <<"a", "n", "d">>
w_20 == <<"2", "0">>
w_5 == <<"5">>
w_005 == <<"0", "0", "5">>
w_150 == <<"1", "5", "0">>

t_lose_20_xp == w_lose \o sp \o w_20 \o sp \o w_xp
t_lose_help_ticket == w_lose \o sp \o w_help \o sp \o w_ticket
t_no_recognizable_penalty ==
    <<"n", "o">> \o sp \o <<"r", "e", "c", "o", "g", "n", "i", "z", "a", "b", "l", "e">>
        \o sp \o <<"p", "e", "n", "a", "l", "t", "y">>

XpParts ==
    { <<>>,
      w_xp,
      w_20 \o sp \o w_xp,
      w_5 \o w_xp,
      w_150 \o sp \o w_XP,
      w_005 \o sp \o sp \o w_xp \o sp \o w_20 \o w_xp,
      w_20 \o sp \o w_experience }

TicketParts ==
    { <<>>,
      w_ticket,
      w_help \o sp \o w_ticket,
      w_tutorial \o sp \o w_ticket,
      w_help \o sp \o w_and \o sp \o w_tutorial \o sp \o w_ticket,
      w_Help \o sp \o w_Ticket,
      w_help }

Phrase(a, b) ==
    w_lose \o (IF a = <<>> THEN <<>> ELSE sp \o a) \o (IF b = <<>> THEN <<>> ELSE sp \o b)

\* None, "", and phrases with every combination of an XP part and a ticket part
Texts ==
    {NoText, Some(<<>>), Some(t_no_recognizable_penalty)}
        \cup {Some(Phrase(a, b)) : a \in XpParts, b \in TicketParts}

\* amounts passed to add_xp: mission rewards (the dialog's spin box, 10..500) and 0
Amounts == {0, 10, 50, 100}

\* what apply_punishment reads off the lower-cased text
Scan(lower) ==
    [xp |-> Contains(lower, w_xp) \/ Contains(lower, w_experience),
     xp_loss |-> XpLoss(lower),
     ticket |-> Contains(lower, w_ticket),
     help |-> Contains(lower, w_help),
     tutorial |-> Contains(lower, w_tutorial)]

\* punishment_lower = punishment_text.lower(), scanned once per input text
Scanned == [t \in {x \in Texts : Truthy(x)} |-> Scan(StrLower(t.val))]

----------------------------------------------------------------------------
(* UserProgress (data_models.py) *)

NewUserProgress ==
    [xp |-> 0, help_tickets |-> 3, tutorial_tickets |-> 2, last_ticket_reset |-> 0,
     level |-> 1, badges |-> <<>>]

\* one entry of the list apply_punishment returns
XpEffect(lost) == [kind |-> "xp", lost |-> lost, level |-> 0]
XpLevelEffect(lost, level) == [kind |-> "xp_level", lost |-> lost, level |-> level]
HelpEffect == [kind |-> "help", lost |-> 1, level |-> 0]
TutorialEffect == [kind |-> "tutorial", lost |-> 1, level |-> 0]
DefaultEffect(lost) == [kind |-> "default", lost |-> lost, level |-> 0]

\* mutant: stores the recomputed level whatever the comparison says
AddXpOp_Recompute(p, amount) ==
    LET xp == p.xp + amount
        new_level == (xp \div 100) + 1
    IN  [up |-> [p EXCEPT !.xp = xp, !.level = new_level], ret |-> new_level > p.level]

\* add_xp: the new object and the returned level-up flag
AddXpOp(p, amount) ==
    LET xp == p.xp + amount
        new_level == (xp \div 100) + 1
    IN  IF new_level > p.level
        THEN [up |-> [p EXCEPT !.xp = xp, !.level = new_level], ret |-> TRUE]
        ELSE [up |-> [p EXCEPT !.xp = xp], ret |-> FALSE]

\* mutant: subtracts without the floor at 0
FlooredXp_NoFloor(xp, loss) == xp - loss

\* self.xp = max(0, self.xp - xp_loss)
FlooredXp(xp, loss) == Max(0, xp - loss)

\* lines 145-160: the XP rule
XpRule(p, effects, f) ==
    IF f.xp
    THEN LET xp_loss == f.xp_loss
             old_xp == p.xp
             xp == FlooredXp(p.xp, xp_loss)
             new_level == Max(1, (xp \div 100) + 1)
         IN  IF new_level < p.level
             THEN [up |-> [p EXCEPT !.xp = xp, !.level = new_level],
                   effects |-> Append(effects, XpLevelEffect(old_xp - xp, new_level))]
             ELSE [up |-> [p EXCEPT !.xp = xp],
                   effects |-> Append(effects, XpEffect(old_xp - xp))]
    ELSE [up |-> p, effects |-> effects]

\* mutant: the non-specific decrement only when no ticket type is named
TicketRule_NoFallback(p, effects, f) ==
    IF f.ticket
    THEN LET a == IF f.help /\ p.help_tickets > 0
                  THEN [up |-> [p EXCEPT !.help_tickets = @ - 1],
                        effects |-> Append(effects, HelpEffect)]
                  ELSE [up |-> p, effects |-> effects]
             b == IF f.tutorial /\ a.up.tutorial_tickets > 0
                  THEN [up |-> [a.up EXCEPT !.tutorial_tickets = @ - 1],
                        effects |-> Append(a.effects, TutorialEffect)]
                  ELSE a
         IN  IF ~f.help /\ ~f.tutorial
             THEN IF b.up.help_tickets > 0
                  THEN [up |-> [b.up EXCEPT !.help_tickets = @ - 1],
                        effects |-> Append(b.effects, HelpEffect)]
                  ELSE IF b.up.tutorial_tickets > 0
                  THEN [up |-> [b.up EXCEPT !.tutorial_tickets = @ - 1],
                        effects |-> Append(b.effects, TutorialEffect)]
                  ELSE b
             ELSE b
    ELSE [up |-> p, effects |-> effects]

\* lines 163-181: the ticket rule
TicketRule(p, effects, f) ==
    IF f.ticket
    THEN LET a == IF f.help /\ p.help_tickets > 0
                  THEN [up |-> [p EXCEPT !.help_tickets = @ - 1],
                        effects |-> Append(effects, HelpEffect), tickets_lost |-> 1]
                  ELSE [up |-> p, effects |-> effects, tickets_lost |-> 0]
             b == IF f.tutorial /\ a.up.tutorial_tickets > 0
                  THEN [up |-> [a.up EXCEPT !.tutorial_tickets = @ - 1],
                        effects |-> Append(a.effects, TutorialEffect),
                        tickets_lost |-> a.tickets_lost + 1]
                  ELSE a
         IN  IF b.tickets_lost = 0
                  /\ (b.up.help_tickets > 0 \/ b.up.tutorial_tickets > 0)
             THEN IF b.up.help_tickets > 0
                  THEN [up |-> [b.up EXCEPT !.help_tickets = @ - 1],
                        effects |-> Append(b.effects, HelpEffect)]
                  ELSE IF b.up.tutorial_tickets > 0
                  THEN [up |-> [b.up EXCEPT !.tutorial_tickets = @ - 1],
                        effects |-> Append(b.effects, TutorialEffect)]
                  ELSE [up |-> b.up, effects |-> b.effects]
             ELSE [up |-> b.up, effects |-> b.effects]
    ELSE [up |-> p, effects |-> effects]

\* mutant: the default punishment without the test for an empty list
DefaultRule_Always(p, effects) ==
    LET old_xp == p.xp
        xp == Max(0, p.xp - 5)
    IN  [up |-> [p EXCEPT !.xp = xp],
         effects |-> Append(effects, DefaultEffect(old_xp - xp))]

\* lines 184-187: the default punishment
DefaultRule(p, effects) ==
    IF effects = <<>>
    THEN LET old_xp == p.xp
             xp == Max(0, p.xp - 5)
         IN  [up |-> [p EXCEPT !.xp = xp],
              effects |-> Append(effects, DefaultEffect(old_xp - xp))]
    ELSE [up |-> p, effects |-> effects]

\* mutant: the ticket rule as an elif of the XP rule
ApplyPunishmentOp_Exclusive(p, text) ==
    IF ~Truthy(text)
    THEN [up |-> p, effects |-> <<>>]
    ELSE LET f == Scanned[text]
             r1 == XpRule(p, <<>>, f)
             r2 == IF f.xp THEN r1 ELSE TicketRule(r1.up, r1.effects, f)
         IN  DefaultRule(r2.up, r2.effects)

\* apply_punishment: the new object and the returned list of effects
ApplyPunishmentOp(p, text) ==
    IF ~Truthy(text)
    THEN [up |-> p, effects |-> <<>>]
    ELSE LET f == Scanned[text]
             r1 == XpRule(p, <<>>, f)
             r2 == TicketRule(r1.up, r1.effects, f)
         IN  DefaultRule(r2.up, r2.effects)

\* mutant: hands out a ticket when none is left
UseHelpTicketOp_NoGuard(p) ==
    [up |-> [p EXCEPT !.help_tickets = @ - 1], ret |-> TRUE]

\* use_help_ticket: the new object and the returned flag
UseHelpTicketOp(p) ==
    IF p.help_tickets > 0
    THEN [up |-> [p EXCEPT !.help_tickets = @ - 1], ret |-> TRUE]
    ELSE [up |-> p, ret |-> FALSE]

\* use_tutorial_ticket: the new object and the returned flag
\* mutant: a tutorial ticket is taken whether or not one is left
UseTutorialTicketOp_NoGuard(p) ==
    [up |-> [p EXCEPT !.tutorial_tickets = @ - 1], ret |-> TRUE]

\* mutant: the use succeeds and the counter stays
UseTutorialTicketOp_Free(p) ==
    IF p.tutorial_tickets > 0 THEN [up |-> p, ret |-> TRUE] ELSE [up |-> p, ret |-> FALSE]

UseTutorialTicketOp(p) ==
    IF p.tutorial_tickets > 0
    THEN [up |-> [p EXCEPT !.tutorial_tickets = @ - 1], ret |-> TRUE]
    ELSE [up |-> p, ret |-> FALSE]

\* timedelta(days=7), in seconds
SevenDays == 604800

\* mutant: strictly more than seven days
ShouldResetTickets_Strict(p, t) == t - p.last_ticket_reset > SevenDays

\* should_reset_tickets at time t; last_ticket_reset is parsed back from the
\* ISO text that isoformat() wrote, which gives the same instant
ShouldResetTickets(p, t) == t - p.last_ticket_reset >= SevenDays

\* mutant: refills the tickets and keeps the old stamp
ResetTicketsOp_NoStamp(p, t) == [p EXCEPT !.help_tickets = 3, !.tutorial_tickets = 2]

\* reset_tickets at time t
ResetTicketsOp(p, t) ==
    [p EXCEPT !.help_tickets = 3, !.tutorial_tickets = 2, !.last_ticket_reset = t]

----------------------------------------------------------------------------
(* State after construction *)

\* no file under study, no StorageManager call made
NoDisk == [name |-> "none", kind |-> "missing", data |-> <<>>]
NoIo == [op |-> "none"]

NoCall ==
    [op |-> "init", id |-> 0, amount |-> 0, text |-> NoText, ret |-> FALSE,
     effects |-> <<>>, outcome |-> "none", old_up |-> NewUserProgress]

Init ==
    /\ up = NewUserProgress
    /\ missions = <<>>
    /\ next_id = 0
    /\ now = 0
    /\ last = NoCall
    /\ progress_file = NewUserProgress
    /\ running = TRUE
    /\ debts = <<>>
    /\ next_debt = 0
    /\ disk = NoDisk
    /\ io = NoIo

----------------------------------------------------------------------------
(* The UserProgress object driven directly by its callers *)

AddXp ==
    \E amount \in Amounts :
        /\ up.xp + amount <= MaxXp
        /\ LET r == AddXpOp(up, amount)
           IN  /\ up' = r.up
               /\ last' = [NoCall EXCEPT !.op = "add_xp", !.amount = amount,
                                         !.ret = r.ret, !.old_up = up]
        /\ UNCHANGED <<missions, next_id, now, progress_file, others>>

ApplyPunishment ==
    \E text \in Texts :
        /\ LET r == ApplyPunishmentOp(up, text)
           IN  /\ up' = r.up
               /\ last' = [NoCall EXCEPT !.op = "apply_punishment", !.text = text,
                                         !.effects = r.effects, !.old_up = up]
        /\ UNCHANGED <<missions, next_id, now, progress_file, others>>

CallUseHelpTicket ==
    /\ LET r == UseHelpTicketOp(up)
       IN  /\ up' = r.up
           /\ last' = [NoCall EXCEPT !.op = "use_help_ticket", !.ret = r.ret, !.old_up = up]
    /\ UNCHANGED <<missions, next_id, now, progress_file, others>>

CallUseTutorialTicket ==
    /\ LET r == UseTutorialTicketOp(up)
       IN  /\ up' = r.up
           /\ last' = [NoCall EXCEPT !.op = "use_tutorial_ticket", !.ret = r.ret,
                                     !.old_up = up]
    /\ UNCHANGED <<missions, next_id, now, progress_file, others>>

\* reset_tickets called on the progress
CallResetTickets ==
    /\ up' = ResetTicketsOp(up, now)
    /\ last' = [NoCall EXCEPT !.op = "reset_tickets", !.old_up = up]
    /\ UNCHANGED <<missions, next_id, now, progress_file, others>>

ProgressNext ==
    AddXp \/ ApplyPunishment \/ CallUseHelpTicket \/ CallUseTutorialTicket
        \/ CallResetTickets

ProgressSpec == Init /\ [][ProgressNext]_vars

----------------------------------------------------------------------------
(* Mission (data_models.py).  Title, description, difficulty, constraints and
   created_at are written once and read by no operation; the record keeps the
   fields the lifecycle uses. *)

\* reward (the spin box's initial value) and punishment texts entered in the
\* mission dialog
Rewards == {50}
MissionPunishments ==
    {NoText, Some(t_lose_20_xp), Some(t_lose_help_ticket), Some(t_no_recognizable_penalty)}

\* Mission.__init__
NewMission(id, rewards, punishment) ==
    [id |-> id, rewards |-> rewards, punishment |-> punishment,
     completed |-> FALSE, completed_at |-> NoTime,
     failed |-> FALSE, failed_at |-> NoTime]

\* mutant: the completion is stamped and the flag is left as it was
CompleteMissionOp_StampOnly(m, t) == [m EXCEPT !.completed_at = Some(t)]

\* Mission.complete_mission
CompleteMissionOp(m, t) == [m EXCEPT !.completed = TRUE, !.completed_at = Some(t)]

\* Mission.fail_mission
FailMissionOp(m, t) == [m EXCEPT !.failed = TRUE, !.failed_at = Some(t)]

----------------------------------------------------------------------------
(* StorageManager (storage_manager.py) *)

\* save_mission: replace the first stored mission with the same id, else append
\* mutant: every save appends
SaveMission_Append(ms, m) == Append(ms, m)

SaveMission(ms, m) ==
    LET same == {i \in 1..Len(ms) : ms[i].id = m.id}
    IN  IF same = {} THEN Append(ms, m)
        ELSE LET i == CHOOSE a \in same : \A b \in same : a <= b
             IN  [ms EXCEPT ![i] = m]

\* delete_mission: keep the missions with another id
\* mutant: from the first mission with the id on, everything is dropped
DeleteMissionOp_DropsRest(ms, id) ==
    LET same == {i \in 1..Len(ms) : ms[i].id = id}
    IN  IF same = {} THEN ms
        ELSE SubSeq(ms, 1, (CHOOSE a \in same : \A b \in same : a <= b) - 1)

RECURSIVE DeleteMissionOp(_, _)
DeleteMissionOp(ms, id) ==
    IF ms = <<>> THEN <<>>
    ELSE IF Head(ms).id = id THEN DeleteMissionOp(Tail(ms), id)
    ELSE <<Head(ms)>> \o DeleteMissionOp(Tail(ms), id)

\* get_active_missions
GetActiveMissions(ms) == SelectSeq(ms, LAMBDA m : ~m.completed)

\* get_completed_missions
GetCompletedMissions(ms) == SelectSeq(ms, LAMBDA m : m.completed)

----------------------------------------------------------------------------
(* SoloCraftApp handlers (solocraft_gui.py) *)

\* mutant: the loop test without `not mission.failed`
Actionable_CompletedOnly(m, id) == m.id = id /\ ~m.completed

\* mutant: the loop test on the id alone
Actionable_AnyState(m, id) == m.id = id

\* the test of the loops in complete_mission and fail_mission
Actionable(m, id) == m.id = id /\ ~m.completed /\ ~m.failed

\* index of the first loaded mission the loop acts on, 0 if it falls through
FirstActionable(ms, id) ==
    LET hits == {i \in 1..Len(ms) : Actionable(ms[i], id)}
    IN  IF hits = {} THEN 0 ELSE CHOOSE a \in hits : \A b \in hits : a <= b

Handled(op, id, outcome, effects) ==
    [NoCall EXCEPT !.op = op, !.id = id, !.outcome = outcome, !.effects = effects,
                   !.old_up = up]

\* create_mission, when the dialog returned a result
CreateMission ==
    \E rewards \in Rewards, punishment \in MissionPunishments :
        /\ next_id < MaxMissions
        /\ next_id' = next_id + 1
        /\ missions' = SaveMission(missions, NewMission(next_id + 1, rewards, punishment))
        /\ last' = Handled("create_mission", next_id + 1, "created", <<>>)
        /\ UNCHANGED <<up, now, progress_file, others>>

\* complete_mission on the selected tree item
CompleteMission ==
    \E id \in 1..MaxMissions :
        LET i == FirstActionable(missions, id)
        IN  IF i = 0
            THEN /\ last' = Handled("complete_mission", id, "conflict", <<>>)
                 /\ UNCHANGED <<up, missions, next_id, now, progress_file, others>>
            ELSE LET m == CompleteMissionOp(missions[i], now)
                     r == AddXpOp(up, m.rewards)
                 IN  /\ missions' = SaveMission(missions, m)
                     /\ up' = r.up
                     /\ progress_file' = r.up
                     /\ last' = [Handled("complete_mission", id, "completed", <<>>)
                                    EXCEPT !.amount = m.rewards, !.ret = r.ret]
                     /\ UNCHANGED <<next_id, now, others>>

\* fail_mission on the selected tree item; confirm is the answer to askyesno
FailMission ==
    \E id \in 1..MaxMissions, confirm \in BOOLEAN :
        LET i == FirstActionable(missions, id)
        IN  IF i = 0
            THEN /\ last' = Handled("fail_mission", id, "conflict", <<>>)
                 /\ UNCHANGED <<up, missions, next_id, now, progress_file, others>>
            ELSE IF ~confirm
            THEN /\ last' = Handled("fail_mission", id, "cancelled", <<>>)
                 /\ UNCHANGED <<up, missions, next_id, now, progress_file, others>>
            ELSE LET m == FailMissionOp(missions[i], now)
                     r == ApplyPunishmentOp(up, m.punishment)
                 IN  /\ missions' = SaveMission(missions, m)
                     /\ up' = r.up
                     /\ progress_file' = r.up
                     /\ last' = [Handled("fail_mission", id, "failed", r.effects)
                                    EXCEPT !.text = m.punishment]
                     /\ UNCHANGED <<next_id, now, others>>

\* delete_mission on the selected tree item, confirmed
DeleteMission ==
    \E id \in 1..MaxMissions :
        /\ missions' = DeleteMissionOp(missions, id)
        /\ last' = Handled("delete_mission", id, "deleted", <<>>)
        /\ UNCHANGED <<up, next_id, now, progress_file, others>>

\* time passes between user actions
Tick ==
    /\ now < MaxTime
    /\ now' = now + 1
    /\ last' = [NoCall EXCEPT !.op = "tick"]
    /\ UNCHANGED <<up, missions, next_id, progress_file, others>>

Next == CreateMission \/ CompleteMission \/ FailMission \/ DeleteMission \/ Tick

Spec == Init /\ [][Next]_vars

----------------------------------------------------------------------------
(* InsightDebt (data_models.py).  created_at is written once and read by no
   operation; the record keeps the fields the lifecycle uses. *)

\* InsightDebt.__init__
NewInsightDebt(id, ticket_type, used_for) ==
    [id |-> id, ticket_type |-> ticket_type, used_for |-> used_for,
     cleared |-> FALSE, insight_entry |-> NoText, cleared_at |-> NoTime]

\* mutant: stores the entry and the stamp, and leaves the debt outstanding
ClearDebtOp_StaysOpen(d, insight_entry, t) ==
    [d EXCEPT !.insight_entry = Some(insight_entry), !.cleared_at = Some(t)]

\* InsightDebt.clear_debt
ClearDebtOp(d, insight_entry, t) ==
    [d EXCEPT !.cleared = TRUE, !.insight_entry = Some(insight_entry),
              !.cleared_at = Some(t)]

\* save_insight_debt: replace the first stored debt with the same id, else append
SaveInsightDebt(ds, d) ==
    LET same == {i \in 1..Len(ds) : ds[i].id = d.id}
    IN  IF same = {} THEN Append(ds, d)
        ELSE LET i == CHOOSE a \in same : \A b \in same : a <= b
             IN  [ds EXCEPT ![i] = d]

\* mutant: offers every stored debt, cleared or not
GetActiveDebts_All(ds) == ds

\* get_active_debts
GetActiveDebts(ds) == SelectSeq(ds, LAMBDA d : ~d.cleared)

\* str.strip(): whitespace removed at both ends
RECURSIVE LStrip(_)
LStrip(s) == IF s # <<>> /\ IsSpace(Head(s)) THEN LStrip(Tail(s)) ELSE s
RECURSIVE RStrip(_)
RStrip(s) ==
    IF s # <<>> /\ IsSpace(s[Len(s)]) THEN RStrip(SubSeq(s, 1, Len(s) - 1)) ELSE s

Strip(s) == RStrip(LStrip(s))

\* answers to askstring: None (cancelled), "", and two purposes
Purposes == {NoText, Some(<<>>), Some(<<"a">>), Some(<<"b">>)}

\* what the insight box may hold when Save Insight is clicked
InsightTexts == {<<>>, <<" ">>, <<"x">>, <<" ", "x", " ">>, <<"y">>}

\* the combobox entry of a debt, f"{debt.ticket_type} - {debt.used_for}": two
\* entries are the same text exactly when type and purpose are the same
DebtOption(d) == <<d.ticket_type, " - ", d.used_for>>

----------------------------------------------------------------------------
(* SoloCraftApp: tickets and insight debts (solocraft_gui.py) *)

\* use_help_ticket; purpose is the answer to askstring
UseHelpTicket ==
    \E purpose \in Purposes :
        /\ running
        /\ next_debt < MaxDebts
        /\ IF up.help_tickets <= 0
           THEN /\ last' = [Handled("use_help_ticket_gui", 0, "refused", <<>>)
                               EXCEPT !.text = purpose]
                /\ UNCHANGED <<up, progress_file, debts, next_debt>>
           ELSE IF ~Truthy(purpose)
           THEN /\ last' = [Handled("use_help_ticket_gui", 0, "cancelled", <<>>)
                               EXCEPT !.text = purpose]
                /\ UNCHANGED <<up, progress_file, debts, next_debt>>
           ELSE LET r == UseHelpTicketOp(up)
                IN  /\ up' = r.up
                    /\ progress_file' = r.up
                    /\ next_debt' = next_debt + 1
                    /\ debts' = SaveInsightDebt(debts,
                                    NewInsightDebt(next_debt + 1, "Help", purpose.val))
                    /\ last' = [Handled("use_help_ticket_gui", next_debt + 1, "used", <<>>)
                                   EXCEPT !.text = purpose]
        /\ UNCHANGED <<missions, next_id, now, running, disk, io>>

\* use_tutorial_ticket; purpose is the answer to askstring
UseTutorialTicket ==
    \E purpose \in Purposes :
        /\ running
        /\ next_debt < MaxDebts
        /\ IF up.tutorial_tickets <= 0
           THEN /\ last' = [Handled("use_tutorial_ticket_gui", 0, "refused", <<>>)
                               EXCEPT !.text = purpose]
                /\ UNCHANGED <<up, progress_file, debts, next_debt>>
           ELSE IF ~Truthy(purpose)
           THEN /\ last' = [Handled("use_tutorial_ticket_gui", 0, "cancelled", <<>>)
                               EXCEPT !.text = purpose]
                /\ UNCHANGED <<up, progress_file, debts, next_debt>>
           ELSE LET r == UseTutorialTicketOp(up)
                IN  /\ up' = r.up
                    /\ progress_file' = r.up
                    /\ next_debt' = next_debt + 1
                    /\ debts' = SaveInsightDebt(debts,
                                    NewInsightDebt(next_debt + 1, "Tutorial", purpose.val))
                    /\ last' = [Handled("use_tutorial_ticket_gui", next_debt + 1, "used", <<>>)
                                   EXCEPT !.text = purpose]
        /\ UNCHANGED <<missions, next_id, now, running, disk, io>>

\* mutant: any text passes
EmptyInsight_Never(insight_text) == FALSE

\* InsightWriteDialog.save_insight, "if not insight_text"
EmptyInsight(insight_text) == insight_text = <<>>

\* InsightWriteDialog.save_insight: the debt the dialog returns for the picked
\* combobox entry, the first offered debt whose entry reads the same
PickedDebt(offered, sel) ==
    LET hits == {i \in 1..Len(offered) : DebtOption(offered[i]) = DebtOption(offered[sel])}
    IN  offered[CHOOSE a \in hits : \A b \in hits : a <= b]

\* write_insight: sel is the combobox entry picked, text the content of the
\* insight box, save whether Save Insight (not Cancel) is clicked
WriteInsight ==
    \E text \in InsightTexts, save \in BOOLEAN :
        /\ running
        /\ LET offered == GetActiveDebts(debts)
           IN  IF offered = <<>>
               THEN /\ last' = Handled("write_insight", 0, "no_debts", <<>>)
                    /\ UNCHANGED debts
               ELSE \E sel \in 1..Len(offered) :
                        LET insight_text == Strip(text)
                            picked == PickedDebt(offered, sel)
                        IN  IF ~save
                            THEN /\ last' = [Handled("write_insight", offered[sel].id,
                                                "cancelled", <<>>) EXCEPT !.text = Some(text)]
                                 /\ UNCHANGED debts
                            ELSE IF EmptyInsight(insight_text)
                            THEN /\ last' = [Handled("write_insight", offered[sel].id,
                                                "rejected", <<>>) EXCEPT !.text = Some(text)]
                                 /\ UNCHANGED debts
                            ELSE /\ debts' = SaveInsightDebt(debts,
                                                ClearDebtOp(picked, insight_text, now))
                                 /\ last' = [Handled("write_insight", picked.id,
                                                "cleared", <<>>) EXCEPT !.text = Some(text)]
        /\ UNCHANGED <<up, missions, next_id, now, progress_file, running, next_debt,
                       disk, io>>

DebtNext == UseHelpTicket \/ UseTutorialTicket \/ WriteInsight \/ Tick

DebtSpec == Init /\ [][DebtNext]_vars

----------------------------------------------------------------------------
(* SoloCraftApp.__init__: the weekly ticket reset at application start *)

\* instants around whole weeks after the first launch, in seconds
Instants ==
    {t \in {k * SevenDays + e : k \in 0..MaxWeeks, e \in {0 - 1, 0, 1}} : t >= 0}

\* progress a previous run may have saved: a fresh one, and one with XP earned
\* and tickets used
SavedProgress ==
    {NewUserProgress,
     [NewUserProgress EXCEPT !.xp = 150, !.level = 2, !.help_tickets = 1,
                             !.tutorial_tickets = 0]}

StartInit ==
    /\ up \in SavedProgress
    /\ progress_file = up
    /\ missions = <<>>
    /\ next_id = 0
    /\ now = 0
    /\ last = NoCall
    /\ running = TRUE
    /\ debts = <<>>
    /\ next_debt = 0
    /\ disk = NoDisk
    /\ io = NoIo

\* the window is closed; the object in memory is gone
CloseApp ==
    /\ running
    /\ running' = FALSE
    /\ last' = [NoCall EXCEPT !.op = "close"]
    /\ UNCHANGED <<up, missions, next_id, now, progress_file, debts, next_debt, disk, io>>

\* SoloCraftApp.__init__, lines 40-46
Startup ==
    /\ ~running
    /\ running' = TRUE
    /\ LET loaded == progress_file
       IN  IF ShouldResetTickets(loaded, now)
           THEN /\ up' = ResetTicketsOp(loaded, now)
                /\ progress_file' = ResetTicketsOp(loaded, now)
                /\ last' = [NoCall EXCEPT !.op = "startup", !.outcome = "reset",
                                          !.old_up = loaded]
           ELSE /\ up' = loaded
                /\ progress_file' = progress_file
                /\ last' = [NoCall EXCEPT !.op = "startup", !.outcome = "kept",
                                          !.old_up = loaded]
    /\ UNCHANGED <<missions, next_id, now, debts, next_debt, disk, io>>

\* time passes, the application open or closed
Wait ==
    \E t \in Instants :
        /\ t > now
        /\ now' = t
        /\ last' = [NoCall EXCEPT !.op = "wait"]
        /\ UNCHANGED <<up, missions, next_id, progress_file, running, debts, next_debt,
                       disk, io>>

\* should_reset_tickets asked of the object in memory
CallShouldResetTickets ==
    /\ running
    /\ last' = [NoCall EXCEPT !.op = "should_reset_tickets",
                              !.ret = ShouldResetTickets(up, now), !.old_up = up]
    /\ UNCHANGED <<up, missions, next_id, now, progress_file, others>>

StartNext ==
    Startup \/ CloseApp \/ Wait \/ CallShouldResetTickets \/ UseHelpTicket
        \/ UseTutorialTicket

StartSpec == StartInit /\ [][StartNext]_vars

----------------------------------------------------------------------------
(* Tickets spent, lost and restored against the insight debts: the ticket
   handlers, a mission failed with a ticket punishment, and a restart a week
   after the last reset *)

\* the application has been open for seven days since its first start
LedgerInit ==
    /\ up = NewUserProgress
    /\ progress_file = NewUserProgress
    /\ missions = <<>>
    /\ next_id = 0
    /\ now = SevenDays
    /\ last = NoCall
    /\ running = TRUE
    /\ debts = <<>>
    /\ next_debt = 0
    /\ disk = NoDisk
    /\ io = NoIo

\* create_mission with a punishment that costs a ticket
CreateTicketMission ==
    /\ running
    /\ CreateMission
    /\ missions'[Len(missions')].punishment = Some(t_lose_help_ticket)

\* fail_mission while the window is open
FailTicketMission == running /\ FailMission

LedgerNext ==
    UseHelpTicket \/ UseTutorialTicket \/ CreateTicketMission \/ FailTicketMission
        \/ CloseApp \/ Startup

LedgerSpec == LedgerInit /\ [][LedgerNext]_vars

----------------------------------------------------------------------------
(* Persisted form: to_dict / from_dict (data_models.py).  A dict is a record
   whose domain is the set of keys present.  A timestamp is the ISO string of
   an instant, kept by both directions as it is; it is written here as the
   instant. *)

\* the result of a call: a value, or the exception that leaves it
Ok(v) == [raised |-> "none", val |-> v]
Raise(e) == [raised |-> e, val |-> <<>>]

\* data.get(k, d)
Get(data, k, d) == IF k \in DOMAIN data THEN data[k] ELSE d

\* a dict without some of its keys
Without(data, keys) == [k \in DOMAIN data \ keys |-> data[k]]

\* an id argument that is None or empty
NoId == 0

\* the uuid4 a constructor draws when it is given no id
FreshId == MaxStored + 1

\* Mission.__init__ with every field
MissionObject(title, description, difficulty, constraints, rewards, punishment, mission_id, t) ==
    [id |-> IF mission_id # NoId THEN mission_id ELSE FreshId,
     title |-> title, description |-> description, difficulty |-> difficulty,
     constraints |-> constraints, rewards |-> rewards, punishment |-> punishment,
     created_at |-> t, completed |-> FALSE, completed_at |-> NoTime,
     failed |-> FALSE, failed_at |-> NoTime]

\* Mission.to_dict
MissionToDict(m) ==
    [id |-> m.id, title |-> m.title, description |-> m.description,
     difficulty |-> m.difficulty, constraints |-> m.constraints, rewards |-> m.rewards,
     punishment |-> m.punishment, created_at |-> m.created_at,
     completed |-> m.completed, completed_at |-> m.completed_at,
     failed |-> m.failed, failed_at |-> m.failed_at]

\* the keys Mission.from_dict reads with data[...]
MissionRequired ==
    {"title", "description", "difficulty", "constraints", "rewards", "id",
     "created_at", "completed"}

\* the keys Mission.from_dict reads with data.get(...)
MissionOptional == {"punishment", "completed_at", "failed", "failed_at"}

\* mutant: a from_dict that knows nothing of failure
MissionFromDict_NoFailure(data, t) ==
    IF ~(MissionRequired \subseteq DOMAIN data) THEN Raise("KeyError")
    ELSE Ok([MissionObject(data.title, data.description, data.difficulty,
                           data.constraints, data.rewards,
                           Get(data, "punishment", NoText), data.id, t)
                EXCEPT !.created_at = data.created_at,
                       !.completed = data.completed,
                       !.completed_at = Get(data, "completed_at", NoTime)])

\* Mission.from_dict; t is the instant of the call
MissionFromDict(data, t) ==
    IF ~(MissionRequired \subseteq DOMAIN data) THEN Raise("KeyError")
    ELSE Ok([MissionObject(data.title, data.description, data.difficulty,
                           data.constraints, data.rewards,
                           Get(data, "punishment", NoText), data.id, t)
                EXCEPT !.created_at = data.created_at,
                       !.completed = data.completed,
                       !.completed_at = Get(data, "completed_at", NoTime),
                       !.failed = Get(data, "failed", FALSE),
                       !.failed_at = Get(data, "failed_at", NoTime)])

\* InsightDebt.__init__ with every field
DebtObject(ticket_type, used_for, debt_id, t) ==
    [id |-> IF debt_id # NoId THEN debt_id ELSE FreshId,
     ticket_type |-> ticket_type, used_for |-> used_for, created_at |-> t,
     cleared |-> FALSE, insight_entry |-> NoText, cleared_at |-> NoTime]

\* InsightDebt.to_dict
DebtToDict(d) ==
    [id |-> d.id, ticket_type |-> d.ticket_type, used_for |-> d.used_for,
     created_at |-> d.created_at, cleared |-> d.cleared,
     insight_entry |-> d.insight_entry, cleared_at |-> d.cleared_at]

DebtRequired == {"ticket_type", "used_for", "id", "created_at", "cleared"}

DebtOptional == {"insight_entry", "cleared_at"}

\* InsightDebt.from_dict
DebtFromDict(data, t) ==
    IF ~(DebtRequired \subseteq DOMAIN data) THEN Raise("KeyError")
    ELSE Ok([DebtObject(data.ticket_type, data.used_for, data.id, t)
                EXCEPT !.created_at = data.created_at,
                       !.cleared = data.cleared,
                       !.insight_entry = Get(data, "insight_entry", NoText),
                       !.cleared_at = Get(data, "cleared_at", NoTime)])

\* UserProgress.to_dict
ProgressToDict(p) ==
    [xp |-> p.xp, help_tickets |-> p.help_tickets,
     tutorial_tickets |-> p.tutorial_tickets,
     last_ticket_reset |-> p.last_ticket_reset, level |-> p.level,
     badges |-> p.badges]

ProgressOptional ==
    {"xp", "help_tickets", "tutorial_tickets", "last_ticket_reset", "level", "badges"}

\* UserProgress.from_dict; t is the instant of the call
ProgressFromDict(data, t) ==
    Ok([xp |-> Get(data, "xp", 0),
        help_tickets |-> Get(data, "help_tickets", 3),
        tutorial_tickets |-> Get(data, "tutorial_tickets", 2),
        last_ticket_reset |-> Get(data, "last_ticket_reset", t),
        level |-> Get(data, "level", 1),
        badges |-> Get(data, "badges", <<>>)])

----------------------------------------------------------------------------
(* StorageManager (storage_manager.py) over one JSON file.  Every method reads
   and writes one file only, so the three files are studied one at a time:
   disk is the file, io the last call and what came back. *)

\* open(...) and json.load(...)
ReadJson(file) ==
    IF file.kind = "missing" THEN Raise("FileNotFoundError")
    ELSE IF file.kind = "malformed" THEN Raise("JSONDecodeError")
    ELSE Ok(file.data)

JsonFile(name, data) == [name |-> name, kind |-> "json", data |-> data]

\* mutant: only a missing file is caught
Caught_MissingOnly(e) == e = "FileNotFoundError"

\* except (FileNotFoundError, json.JSONDecodeError)
Caught(e) == e \in {"FileNotFoundError", "JSONDecodeError"}

\* the list comprehension over from_dict: the first exception leaves it
Collected(rs) ==
    LET bad == {i \in 1..Len(rs) : rs[i].raised # "none"}
    IN  IF bad # {} THEN Raise(rs[CHOOSE a \in bad : \A b \in bad : a <= b].raised)
        ELSE Ok([i \in 1..Len(rs) |-> rs[i].val])

\* load_missions
LoadMissions(file, t) ==
    LET r == ReadJson(file)
    IN  IF r.raised # "none"
        THEN IF Caught(r.raised) THEN Ok(<<>>) ELSE r
        ELSE Collected([i \in 1..Len(r.val) |-> MissionFromDict(r.val[i], t)])

\* load_insight_debts
LoadInsightDebts(file, t) ==
    LET r == ReadJson(file)
    IN  IF r.raised # "none"
        THEN IF Caught(r.raised) THEN Ok(<<>>) ELSE r
        ELSE Collected([i \in 1..Len(r.val) |-> DebtFromDict(r.val[i], t)])

\* load_user_progress; the file holds one dict
LoadUserProgress(file, t) ==
    LET r == ReadJson(file)
    IN  IF r.raised # "none"
        THEN IF Caught(r.raised) THEN Ok([NewUserProgress EXCEPT !.last_ticket_reset = t])
             ELSE r
        ELSE ProgressFromDict(r.val[1], t)

\* [m.to_dict() for m in missions]
MissionsData(ms) == [i \in 1..Len(ms) |-> MissionToDict(ms[i])]

\* [d.to_dict() for d in debts]
DebtsData(ds) == [i \in 1..Len(ds) |-> DebtToDict(ds[i])]

\* missions the application can hold: created, then completed or failed once
StoredMissions(t) ==
    LET made == {MissionObject("t", "d", "Easy", "c", 50, pn, id, t) :
                    pn \in {NoText, Some(t_lose_20_xp)}, id \in 1..MaxStored}
    IN  made \cup {[m EXCEPT !.completed = TRUE, !.completed_at = Some(t)] : m \in made}
             \cup {[m EXCEPT !.failed = TRUE, !.failed_at = Some(t)] : m \in made}

\* the missions handed to save_mission: a new one, a completed one, a failed one
SavedMissions(t) ==
    {m \in StoredMissions(t) : m.punishment.some <=> (m.completed \/ m.failed)}

\* debts the application can hold: created, then cleared once
StoredDebts(t) ==
    LET made == {DebtObject(ty, <<"a">>, id, t) :
                    ty \in {"Help", "Tutorial"}, id \in 1..MaxStored}
    IN  made \cup {[d EXCEPT !.cleared = TRUE, !.insight_entry = Some(<<"x">>),
                             !.cleared_at = Some(t)] : d \in made}

\* progress the application can hold
StoredProgress(t) ==
    SavedProgress \cup {[p EXCEPT !.last_ticket_reset = t, !.badges = <<"b">>] :
                           p \in SavedProgress}

\* the files after StorageManager.__init__ on an empty directory
StoreInit ==
    /\ disk \in {JsonFile("missions", <<>>), JsonFile("debts", <<>>),
                 JsonFile("progress", <<ProgressToDict(NewUserProgress)>>)}
    /\ io = NoIo
    /\ up = NewUserProgress
    /\ progress_file = NewUserProgress
    /\ missions = <<>>
    /\ next_id = 0
    /\ now = 0
    /\ last = NoCall
    /\ running = TRUE
    /\ debts = <<>>
    /\ next_debt = 0

StoreFrame == UNCHANGED <<up, missions, next_id, now, last, progress_file, running,
                          debts, next_debt>>

\* save_mission
CallSaveMission ==
    \E m \in SavedMissions(now) :
        /\ disk.name = "missions"
        /\ LET r == LoadMissions(disk, now)
           IN  IF r.raised # "none"
               THEN /\ io' = [op |-> "save_mission", arg |-> m, raised |-> r.raised]
                    /\ UNCHANGED disk
               ELSE /\ disk' = JsonFile("missions",
                                    MissionsData(SaveMission(r.val, m)))
                    /\ io' = [op |-> "save_mission", arg |-> m, raised |-> "none"]
        /\ StoreFrame

\* delete_mission
CallDeleteMission ==
    \E id \in 1..MaxStored :
        /\ disk.name = "missions"
        /\ LET r == LoadMissions(disk, now)
           IN  IF r.raised # "none"
               THEN /\ io' = [op |-> "delete_mission", id |-> id, raised |-> r.raised]
                    /\ UNCHANGED disk
               ELSE /\ disk' = JsonFile("missions",
                                    MissionsData(DeleteMissionOp(r.val, id)))
                    /\ io' = [op |-> "delete_mission", id |-> id, raised |-> "none"]
        /\ StoreFrame

\* load_missions
CallLoadMissions ==
    /\ disk.name = "missions"
    /\ LET r == LoadMissions(disk, now)
       IN  io' = [op |-> "load_missions", raised |-> r.raised, result |-> r.val]
    /\ UNCHANGED disk
    /\ StoreFrame

\* save_insight_debt
CallSaveInsightDebt ==
    \E d \in StoredDebts(now) :
        /\ disk.name = "debts"
        /\ LET r == LoadInsightDebts(disk, now)
           IN  IF r.raised # "none"
               THEN /\ io' = [op |-> "save_insight_debt", arg |-> d, raised |-> r.raised]
                    /\ UNCHANGED disk
               ELSE /\ disk' = JsonFile("debts",
                                    DebtsData(SaveInsightDebt(r.val, d)))
                    /\ io' = [op |-> "save_insight_debt", arg |-> d, raised |-> "none"]
        /\ StoreFrame

\* load_insight_debts
CallLoadInsightDebts ==
    /\ disk.name = "debts"
    /\ LET r == LoadInsightDebts(disk, now)
       IN  io' = [op |-> "load_insight_debts", raised |-> r.raised, result |-> r.val]
    /\ UNCHANGED disk
    /\ StoreFrame

\* save_user_progress
CallSaveUserProgress ==
    \E p \in StoredProgress(now) :
        /\ disk.name = "progress"
        /\ disk' = JsonFile("progress", <<ProgressToDict(p)>>)
        /\ io' = [op |-> "save_user_progress", arg |-> p, raised |-> "none"]
        /\ StoreFrame

\* load_user_progress
CallLoadUserProgress ==
    /\ disk.name = "progress"
    /\ LET r == LoadUserProgress(disk, now)
       IN  io' = [op |-> "load_user_progress", raised |-> r.raised, result |-> r.val]
    /\ UNCHANGED disk
    /\ StoreFrame

\* the file is removed from the data directory
RemoveFile ==
    /\ disk.kind # "missing"
    /\ disk' = [name |-> disk.name, kind |-> "missing", data |-> <<>>]
    /\ io' = [op |-> "remove_file"]
    /\ StoreFrame

\* the file is cut short: what is left is no JSON document
TruncateFile ==
    /\ disk.kind = "json"
    /\ disk' = [name |-> disk.name, kind |-> "malformed", data |-> <<>>]
    /\ io' = [op |-> "truncate_file"]
    /\ StoreFrame

\* the keys an earlier version of the application did not write
OptionalOf(name) ==
    IF name = "missions" THEN {MissionOptional, {"failed", "failed_at"}}
    ELSE IF name = "debts" THEN {DebtOptional}
    ELSE {ProgressOptional} \cup {{k} : k \in ProgressOptional}

\* a record of the file is as an earlier version wrote it
OlderRecord ==
    \E i \in 1..Len(disk.data) :
        \E keys \in OptionalOf(disk.name) :
            /\ disk.kind = "json"
            /\ keys \cap DOMAIN disk.data[i] # {}
            /\ disk' = [disk EXCEPT !.data[i] = Without(@, keys)]
            /\ io' = [op |-> "older_record"]
            /\ StoreFrame

StoreNext ==
    \/ CallSaveMission \/ CallDeleteMission \/ CallLoadMissions
    \/ CallSaveInsightDebt \/ CallLoadInsightDebts
    \/ CallSaveUserProgress \/ CallLoadUserProgress
    \/ RemoveFile \/ TruncateFile \/ OlderRecord

StoreSpec == StoreInit /\ [][StoreNext]_vars

----------------------------------------------------------------------------
(* to_dict and from_dict called on their own *)

\* from_dict(to_dict(v)) of a mission
CallMissionRoundTrip ==
    \E m \in StoredMissions(now) :
        /\ io' = [op |-> "mission_round_trip", arg |-> m,
                  result |-> MissionFromDict(MissionToDict(m), now)]
        /\ UNCHANGED disk
        /\ StoreFrame

\* from_dict(to_dict(v)) of a debt
CallDebtRoundTrip ==
    \E d \in StoredDebts(now) :
        /\ io' = [op |-> "debt_round_trip", arg |-> d,
                  result |-> DebtFromDict(DebtToDict(d), now)]
        /\ UNCHANGED disk
        /\ StoreFrame

\* from_dict(to_dict(v)) of a progress
CallProgressRoundTrip ==
    \E p \in StoredProgress(now) :
        /\ io' = [op |-> "progress_round_trip", arg |-> p,
                  result |-> ProgressFromDict(ProgressToDict(p), now)]
        /\ UNCHANGED disk
        /\ StoreFrame

\* Mission.from_dict of a persisted record some optional keys of which are absent
CallMissionFromDict ==
    \E m \in StoredMissions(now), keys \in SUBSET MissionOptional :
        /\ io' = [op |-> "mission_from_dict", arg |-> Without(MissionToDict(m), keys),
                  result |-> MissionFromDict(Without(MissionToDict(m), keys), now)]
        /\ UNCHANGED disk
        /\ StoreFrame

\* InsightDebt.from_dict of a persisted record some optional keys of which are absent
CallDebtFromDict ==
    \E d \in StoredDebts(now), keys \in SUBSET DebtOptional :
        /\ io' = [op |-> "debt_from_dict", arg |-> Without(DebtToDict(d), keys),
                  result |-> DebtFromDict(Without(DebtToDict(d), keys), now)]
        /\ UNCHANGED disk
        /\ StoreFrame

\* UserProgress.from_dict of a persisted record some keys of which are absent
CallProgressFromDict ==
    \E p \in StoredProgress(now), keys \in SUBSET ProgressOptional :
        /\ io' = [op |-> "progress_from_dict", arg |-> Without(ProgressToDict(p), keys),
                  result |-> ProgressFromDict(Without(ProgressToDict(p), keys), now)]
        /\ UNCHANGED disk
        /\ StoreFrame

\* the clock seen by from_dict and the constructors
StoreTick ==
    /\ now < MaxTime
    /\ now' = now + 1
    /\ io' = [op |-> "tick"]
    /\ UNCHANGED <<up, missions, next_id, last, progress_file, running, debts,
                   next_debt, disk>>

SerialNext ==
    \/ CallMissionRoundTrip \/ CallDebtRoundTrip \/ CallProgressRoundTrip
    \/ CallMissionFromDict \/ CallDebtFromDict \/ CallProgressFromDict
    \/ StoreTick

SerialSpec == Init /\ [][SerialNext]_vars

----------------------------------------------------------------------------
(* What the last apply_punishment call was given, read off its text alone *)

Punished == last.op = "apply_punishment" /\ Truthy(last.text)
LastLower == StrLower(last.text.val)
MentionsXp == Contains(LastLower, w_xp) \/ Contains(LastLower, w_experience)
MentionsTicket == Contains(LastLower, w_ticket)
NamesHelp == Contains(LastLower, w_help)
NamesTutorial == Contains(LastLower, w_tutorial)
TicketsUnchanged ==
    /\ up.help_tickets = last.old_up.help_tickets
    /\ up.tutorial_tickets = last.old_up.tutorial_tickets
EffectKinds == {last.effects[i].kind : i \in 1..Len(last.effects)}

----------------------------------------------------------------------------
(* Properties of the mission lifecycle, checked under Spec *)

\* no stored mission is both completed and failed
FlagsExclusive ==
    \A i \in 1..Len(missions) : ~(missions[i].completed /\ missions[i].failed)

\* a step keeps every completed or failed flag that is set, with its timestamp
FlagsStay ==
    \A i \in 1..Len(missions) : \A j \in 1..Len(missions') :
        missions[i].id = missions'[j].id =>
            /\ missions[i].completed =>
                   /\ missions'[j].completed
                   /\ missions'[j].completed_at = missions[i].completed_at
            /\ missions[i].failed =>
                   /\ missions'[j].failed
                   /\ missions'[j].failed_at = missions[i].failed_at

\* C1: over any sequence of create, complete, fail and delete, no mission is
\* both completed and failed, and a completed (or failed) flag that is true
\* never becomes false again.
MissionFlagsExclusiveOneWay == [](FlagsExclusive) /\ [][FlagsStay]_vars

\* the store holds a completed mission next to a failed one, at a later time
CompletedAndFailedStored ==
    /\ \E i \in 1..Len(missions) : missions[i].completed /\ missions[i].completed_at.val < now
    /\ \E i \in 1..Len(missions) : missions[i].failed /\ missions[i].failed_at.val < now
    /\ last.op \in {"complete_mission", "fail_mission"}

\* the mission with this id is stored as completed or failed
Settled(id) ==
    \E i \in 1..Len(missions) :
        missions[i].id = id /\ (missions[i].completed \/ missions[i].failed)

\* C2: complete or fail invoked on a mission that is already completed or
\* failed is rejected as a state conflict; the missions (flags, timestamps)
\* and the user progress (xp, level, tickets) are as before the call.
SettledMissionIsRejected ==
    [][(last'.op \in {"complete_mission", "fail_mission"} /\ Settled(last'.id)) =>
           /\ last'.outcome = "conflict"
           /\ missions' = missions
           /\ up' = up]_vars

\* complete was invoked a second time, later, on a mission completed before
CompletedTwice ==
    /\ last.op = "complete_mission"
    /\ last.outcome = "conflict"
    /\ \E i \in 1..Len(missions) :
           /\ missions[i].id = last.id
           /\ missions[i].completed
           /\ missions[i].completed_at.val < now
           /\ missions[i].rewards > 0

----------------------------------------------------------------------------
(* Properties of UserProgress, checked under ProgressSpec *)

\* C3: in every state reached from a fresh UserProgress by add_xp (amount >= 0)
\* and apply_punishment, the stored level is floor(xp / 100) + 1.
LevelIsDerivedFromXp == up.level = (up.xp \div 100) + 1

\* C4: add_xp(x) sets xp to xp + x; it raises level to floor((xp + x) / 100) + 1
\* and returns true when that exceeds the prior level, otherwise it leaves level
\* alone and returns false; it never lowers level.
AddXpContract ==
    last.op = "add_xp" =>
        LET old == last.old_up
            target == ((old.xp + last.amount) \div 100) + 1
        IN  /\ up.xp = old.xp + last.amount
            /\ IF target > old.level
               THEN up.level = target /\ last.ret = TRUE
               ELSE up.level = old.level /\ last.ret = FALSE
            /\ up.level >= old.level

\* add_xp left a level in place that recomputation would have lowered
AddXpKeptHigherLevel ==
    /\ last.op = "add_xp"
    /\ last.amount > 0
    /\ last.ret = FALSE
    /\ up.level > (up.xp \div 100) + 1

\* C5: apply_punishment with None or "" returns no effect and changes none of
\* xp, level, help_tickets, tutorial_tickets: no default penalty.
EmptyPunishmentIsNoOp ==
    (last.op = "apply_punishment" /\ (~last.text.some \/ last.text.val = <<>>)) =>
        /\ last.effects = <<>>
        /\ up = last.old_up

\* apply_punishment("") was called with XP at hand that a default penalty would take
EmptyPunishmentCalled ==
    /\ last.op = "apply_punishment"
    /\ last.text = Some(<<>>)
    /\ last.old_up.xp >= 5

\* C6: when the text mentions "xp" or "experience", xp becomes max(0, xp - n),
\* n the integer before "xp" or else 10, the effect reports min(n, old xp), and
\* xp is not negative; "lose 20 xp" at xp = 15 gives xp = 0 and a loss of 15.
XpRuleFloorsAtZero ==
    (Punished /\ MentionsXp) =>
        LET old == last.old_up
            n == XpLoss(LastLower)
        IN  /\ up.xp = Max(0, old.xp - n)
            /\ up.xp >= 0
            /\ last.effects # <<>>
            /\ Head(last.effects).kind \in {"xp", "xp_level"}
            /\ Head(last.effects).lost = Min(n, old.xp)
            /\ (last.text.val = t_lose_20_xp /\ old.xp = 15) =>
                   up.xp = 0 /\ Head(last.effects).lost = 15
            /\ last.text.val = t_lose_20_xp => up.xp = Max(0, old.xp - 20)
            /\ last.text.val = w_lose \o sp \o w_xp => up.xp = Max(0, old.xp - 10)
            /\ last.text.val = w_lose \o sp \o w_20 \o sp \o w_experience =>
                   up.xp = Max(0, old.xp - 10)

\* "lose 20 xp" was applied at xp = 15
Lose20XpAt15 ==
    /\ Punished
    /\ last.text.val = t_lose_20_xp
    /\ last.old_up.xp = 15
    /\ up.xp = 0

\* C7: for non-empty text the default penalty is applied exactly when neither
\* the XP rule nor the ticket rule produced an effect; it then sets xp to
\* max(0, xp - 5), leaves the tickets alone and returns one default effect.
DefaultPenaltyOnlyWhenNoEffect ==
    Punished =>
        LET old == last.old_up
            ticketEffect ==
                MentionsTicket /\ (old.help_tickets > 0 \/ old.tutorial_tickets > 0)
            defaultApplied == "default" \in EffectKinds
        IN  /\ defaultApplied <=> (~MentionsXp /\ ~ticketEffect)
            /\ defaultApplied <=> EffectKinds \cap {"xp", "xp_level", "help", "tutorial"} = {}
            /\ (~MentionsXp /\ ~MentionsTicket) => defaultApplied
            /\ defaultApplied =>
                   /\ up.xp = Max(0, old.xp - 5)
                   /\ TicketsUnchanged
                   /\ last.effects = <<DefaultEffect(Min(5, old.xp))>>

\* "no recognizable penalty" was applied and took 5 XP
DefaultPenaltyApplied ==
    /\ Punished
    /\ last.text.val = t_no_recognizable_penalty
    /\ last.old_up.xp >= 5
    /\ last.effects = <<DefaultEffect(5)>>

NamedTypeAtZeroLosesNothing ==
    (Punished /\ MentionsTicket) =>
        LET old == last.old_up
            Dec(n) == IF n > 0 THEN n - 1 ELSE 0
        IN  /\ (NamesHelp /\ ~NamesTutorial) =>
                   /\ up.help_tickets = Dec(old.help_tickets)
                   /\ up.tutorial_tickets = old.tutorial_tickets
                   /\ old.help_tickets = 0 => EffectKinds \cap {"help", "tutorial"} = {}
            /\ (NamesTutorial /\ ~NamesHelp) =>
                   /\ up.tutorial_tickets = Dec(old.tutorial_tickets)
                   /\ up.help_tickets = old.help_tickets
                   /\ old.tutorial_tickets = 0 => EffectKinds \cap {"help", "tutorial"} = {}
            /\ (NamesHelp /\ NamesTutorial) =>
                   /\ up.help_tickets = Dec(old.help_tickets)
                   /\ up.tutorial_tickets = Dec(old.tutorial_tickets)

\* C10: when the text triggers both the XP rule and the ticket rule, both are
\* applied in the one call: xp per the XP rule, tickets per the ticket rule,
\* no default penalty, and the XP effect comes first, then the ticket effects.
BothRulesApply ==
    (Punished /\ MentionsXp /\ MentionsTicket) =>
        LET old == last.old_up
            h == old.help_tickets
            t == old.tutorial_tickets
            helpNamed == NamesHelp /\ h > 0
            tutNamed == NamesTutorial /\ t > 0
            generic == ~helpNamed /\ ~tutNamed
            helpLost == helpNamed \/ (generic /\ h > 0)
            tutLost == tutNamed \/ (generic /\ h = 0 /\ t > 0)
            ticketEffects ==
                (IF helpLost THEN <<HelpEffect>> ELSE <<>>)
                    \o (IF tutLost THEN <<TutorialEffect>> ELSE <<>>)
        IN  /\ up.xp = Max(0, old.xp - XpLoss(LastLower))
            /\ up.help_tickets = h - (IF helpLost THEN 1 ELSE 0)
            /\ up.tutorial_tickets = t - (IF tutLost THEN 1 ELSE 0)
            /\ "default" \notin EffectKinds
            /\ Head(last.effects).kind \in {"xp", "xp_level"}
            /\ Head(last.effects).lost = old.xp - up.xp
            /\ Tail(last.effects) = ticketEffects

\* one call took XP, a help ticket and a tutorial ticket
XpAndBothTicketsLost ==
    /\ Punished
    /\ MentionsXp
    /\ MentionsTicket
    /\ Len(last.effects) = 3
    /\ up.xp < last.old_up.xp
    /\ up.help_tickets < last.old_up.help_tickets
    /\ up.tutorial_tickets < last.old_up.tutorial_tickets

\* C11: use_help_ticket (use_tutorial_ticket) takes exactly 1 from help_tickets
\* (tutorial_tickets) and returns true when that counter is > 0; at 0 it
\* returns false and changes no field; the other counter, xp and level are
\* unchanged either way.
UseTicketContract ==
    LET old == last.old_up
        Same(fields) == \A f \in fields : up[f] = old[f]
        rest == {"xp", "level", "last_ticket_reset", "badges"}
    IN  /\ last.op = "use_help_ticket" =>
            /\ Same(rest \cup {"tutorial_tickets"})
            /\ IF old.help_tickets > 0
               THEN up.help_tickets = old.help_tickets - 1 /\ last.ret = TRUE
               ELSE up.help_tickets = old.help_tickets /\ last.ret = FALSE
        /\ last.op = "use_tutorial_ticket" =>
            /\ Same(rest \cup {"help_tickets"})
            /\ IF old.tutorial_tickets > 0
               THEN up.tutorial_tickets = old.tutorial_tickets - 1 /\ last.ret = TRUE
               ELSE up.tutorial_tickets = old.tutorial_tickets /\ last.ret = FALSE

\* use_help_ticket was refused at 0 help tickets, with tutorial tickets and XP at hand
HelpTicketRefused ==
    /\ last.op = "use_help_ticket"
    /\ last.old_up.help_tickets = 0
    /\ last.ret = FALSE
    /\ up.tutorial_tickets > 0
    /\ up.xp > 0

\* C12: should_reset_tickets answers true exactly when seven days or more have
\* passed since last_ticket_reset (false one second short of seven days, true at
\* exactly seven days and later), and it leaves the progress as it was.
ShouldResetAtSevenDays ==
    last.op = "should_reset_tickets" =>
        LET elapsed == now - up.last_ticket_reset
        IN  /\ last.ret <=> elapsed >= 7 * 24 * 60 * 60
            /\ elapsed = 7 * 24 * 60 * 60 - 1 => ~last.ret
            /\ elapsed = 7 * 24 * 60 * 60 => last.ret
            /\ up = last.old_up

AskedAtExactlySevenDays ==
    /\ last.op = "should_reset_tickets"
    /\ up.last_ticket_reset > 0
    /\ now - up.last_ticket_reset = 7 * 24 * 60 * 60
    /\ last.ret

\* C13: a start of the application resets the tickets exactly when seven days
\* have passed since the loaded last_ticket_reset: then the progress is the
\* loaded one with 3 help tickets, 2 tutorial tickets and last_ticket_reset = now
\* (so no reset is due any more), xp, level and badges as loaded, and it is
\* saved; otherwise the progress is as loaded and nothing is written.  No step
\* other than a start moves last_ticket_reset or raises a ticket count.
TicketResetAtStartOnly ==
    [][IF ~running /\ running'
       THEN LET loaded == progress_file
            IN  IF now - loaded.last_ticket_reset >= 7 * 24 * 60 * 60
                THEN /\ up' = [loaded EXCEPT !.help_tickets = 3, !.tutorial_tickets = 2,
                                             !.last_ticket_reset = now]
                     /\ progress_file' = up'
                     /\ now' - up'.last_ticket_reset < 7 * 24 * 60 * 60
                ELSE /\ up' = loaded
                     /\ progress_file' = progress_file
       ELSE /\ up'.last_ticket_reset = up.last_ticket_reset
            /\ up'.help_tickets <= up.help_tickets
            /\ up'.tutorial_tickets <= up.tutorial_tickets]_vars

TicketsResetAtStart ==
    /\ last.op = "startup"
    /\ last.outcome = "reset"
    /\ last.old_up.xp = 150
    /\ last.old_up.help_tickets = 0
    /\ up.help_tickets = 3
    /\ up.xp = 150

\* C14: every stored insight debt has a non-empty insight entry exactly when it
\* is cleared.
InsightEntryIffCleared ==
    \A i \in 1..Len(debts) :
        debts[i].cleared <=>
            (debts[i].insight_entry.some /\ debts[i].insight_entry.val # <<>>)

OneClearedOneOutstanding ==
    \E i, j \in 1..Len(debts) :
        /\ debts[i].cleared
        /\ debts[i].insight_entry.some
        /\ ~debts[j].cleared
        /\ ~debts[j].insight_entry.some

\* C15: Save Insight with an empty insight text (nothing but whitespace) is
\* turned down and changes no stored debt: no cleared flag, entry or clear time
\* moves and nothing is written.
EmptyInsightIsRejected ==
    [][(/\ last'.op = "write_insight"
        /\ last'.outcome \notin {"no_debts", "cancelled"}
        /\ \A i \in 1..Len(last'.text.val) : IsSpace(last'.text.val[i]))
       => (debts' = debts /\ last'.outcome = "rejected")]_vars

BlankInsightTurnedDown ==
    /\ last.op = "write_insight"
    /\ last.outcome = "rejected"
    /\ last.text = Some(<<" ">>)
    /\ \E i \in 1..Len(debts) : debts[i].id = last.id /\ ~debts[i].cleared

\* C16: a cleared insight debt stays in the store at its place with the same
\* entry, clear time and cleared flag through every later step.
ClearedDebtIsFinal ==
    [][\A i \in 1..Len(debts) :
           debts[i].cleared => (i <= Len(debts') /\ debts'[i] = debts[i])]_vars

TwoDebtsClearedApart ==
    \E i, j \in 1..Len(debts) :
        /\ debts[i].cleared
        /\ debts[j].cleared
        /\ debts[i].cleared_at # debts[j].cleared_at
        /\ last.op = "write_insight"

----------------------------------------------------------------------------
(* What the claims about the store are stated over *)

\* the entities a file holds, as the application reads them back
StoredIn(file) ==
    IF file.name = "missions" THEN LoadMissions(file, now).val
    ELSE IF file.name = "debts" THEN LoadInsightDebts(file, now).val
    ELSE <<>>

DistinctIds(es) == \A i, j \in 1..Len(es) : es[i].id = es[j].id => i = j

\* the value a field takes when its key is absent from the persisted record
AbsentDefault(k, t) ==
    CASE k \in {"punishment", "insight_entry"} -> NoText
      [] k \in {"completed_at", "failed_at", "cleared_at"} -> NoTime
      [] k = "failed" -> FALSE
      [] k = "xp" -> 0
      [] k = "help_tickets" -> 3
      [] k = "tutorial_tickets" -> 2
      [] k = "level" -> 1
      [] k = "badges" -> <<>>
      [] k = "last_ticket_reset" -> t

\* obj carries what data holds under every key of keys, and the default where
\* data has no such key
ReadsBack(obj, data, keys, t) ==
    /\ DOMAIN obj = keys
    /\ \A k \in keys :
           obj[k] = IF k \in DOMAIN data THEN data[k] ELSE AbsentDefault(k, t)

\* C17: save_mission and save_insight_debt replace the first stored entry with
\* the entity's id in place (same length, every other entry as before) and
\* append the entity at the end when no entry has its id; neither raises, and
\* from the empty store on no two stored entries share an id.
SaveIsUpsertById ==
    [][/\ io'.op \in {"save_mission", "save_insight_debt"} =>
              LET before == StoredIn(disk)
                  after == StoredIn(disk')
                  e == io'.arg
                  same == {i \in 1..Len(before) : before[i].id = e.id}
              IN  /\ io'.raised = "none"
                  /\ disk'.kind = "json"
                  /\ IF same = {}
                     THEN /\ Len(after) = Len(before) + 1
                          /\ after[Len(after)] = e
                          /\ \A j \in 1..Len(before) : after[j] = before[j]
                     ELSE /\ Len(after) = Len(before)
                          /\ \E i \in same :
                                 /\ \A h \in same : i <= h
                                 /\ after[i] = e
                                 /\ \A j \in 1..Len(before) : j # i => after[j] = before[j]
       /\ DistinctIds(StoredIn(disk'))]_vars

ReplacedInPlace ==
    /\ io.op = "save_mission"
    /\ Len(disk.data) = 2
    /\ disk.data[1].id = io.arg.id
    /\ io.arg.completed
    /\ disk.data[1].completed
    /\ ~disk.data[2].completed

\* C18: delete_mission(id) leaves exactly the stored missions with another id,
\* in their order and unchanged, and does not raise; with no mission of that id
\* the stored missions are as before, and a second delete of the id changes
\* nothing more.
DeleteRemovesExactlyTheId ==
    [][io'.op = "delete_mission" =>
           LET before == StoredIn(disk)
               after == StoredIn(disk')
           IN  /\ io'.raised = "none"
               /\ after = SelectSeq(before, LAMBDA m : m.id # io'.id)
               /\ (\A i \in 1..Len(before) : before[i].id # io'.id) => after = before
               /\ DeleteMissionOp(after, io'.id) = after]_vars

DeletedAbsentId ==
    /\ io.op = "delete_mission"
    /\ Len(disk.data) = 1
    /\ disk.data[1].id # io.id
    /\ io.raised = "none"

\* C19: a load never raises: with the file missing or not well-formed,
\* load_missions and load_insight_debts return the empty list and
\* load_user_progress a fresh progress (xp 0, level 1, 3 help tickets, 2
\* tutorial tickets); with a well-formed file, every record loads with the
\* stored value of each key present and the default of each optional key absent.
LoadNeverRaises ==
    /\ io.op \in {"load_missions", "load_insight_debts"} =>
           /\ io.raised = "none"
           /\ disk.kind \in {"missing", "malformed"} => io.result = <<>>
           /\ disk.kind = "json" =>
                  /\ Len(io.result) = Len(disk.data)
                  /\ \A i \in 1..Len(disk.data) :
                         ReadsBack(io.result[i], disk.data[i],
                                   IF io.op = "load_missions"
                                   THEN MissionRequired \cup MissionOptional
                                   ELSE DebtRequired \cup DebtOptional, now)
    /\ io.op = "load_user_progress" =>
           /\ io.raised = "none"
           /\ disk.kind \in {"missing", "malformed"} =>
                  /\ io.result.xp = 0
                  /\ io.result.level = 1
                  /\ io.result.help_tickets = 3
                  /\ io.result.tutorial_tickets = 2
                  /\ io.result.badges = <<>>
           /\ disk.kind = "json" =>
                  ReadsBack(io.result, disk.data[1], ProgressOptional, now)

LoadedMalformedMissions ==
    /\ io.op = "load_missions"
    /\ disk.kind = "malformed"
    /\ io.raised = "none"
    /\ io.result = <<>>

\* C20: from_dict(to_dict(v)) has the value of v in every field, for missions,
\* insight debts and progress; and from_dict of a persisted record with optional
\* keys absent gives each such field its default (None, false, or the starter
\* value) and every other field the stored value.
RoundTripIsIdentity ==
    /\ io.op \in {"mission_round_trip", "debt_round_trip", "progress_round_trip"} =>
           /\ io.result.raised = "none"
           /\ DOMAIN io.result.val = DOMAIN io.arg
           /\ \A k \in DOMAIN io.arg : io.result.val[k] = io.arg[k]
    /\ io.op = "mission_from_dict" =>
           /\ io.result.raised = "none"
           /\ ReadsBack(io.result.val, io.arg, MissionRequired \cup MissionOptional, now)
    /\ io.op = "debt_from_dict" =>
           /\ io.result.raised = "none"
           /\ ReadsBack(io.result.val, io.arg, DebtRequired \cup DebtOptional, now)
    /\ io.op = "progress_from_dict" =>
           /\ io.result.raised = "none"
           /\ ReadsBack(io.result.val, io.arg, ProgressOptional, now)

FailedMissionRoundTrip ==
    /\ io.op = "mission_round_trip"
    /\ io.arg.failed
    /\ io.arg.failed_at = Some(1)
    /\ io.arg.punishment.some
    /\ io.result.val.failed

----------------------------------------------------------------------------
(* What the claims about missions and their side effects are stated over *)

IsSettled(m) == m.completed \/ m.failed

\* the places of ms whose mission is active there and settled in after
SettledBetween(ms, after) ==
    {i \in 1..Len(ms) :
        /\ ~IsSettled(ms[i])
        /\ \E j \in 1..Len(after) : after[j].id = ms[i].id /\ IsSettled(after[j])}

\* C21: xp and tickets move only in a step that takes one stored mission from
\* active to completed (xp grows by its reward, tickets stay) or from active to
\* failed (its punishment is applied once); a completed or failed mission never
\* becomes active, completed or failed again, so each reward and each punishment
\* takes effect at most once and never both; a step on an id that is absent or
\* settled leaves xp and tickets alone.
RewardAndPunishmentOnce ==
    [][\/ missions' = missions /\ up' = up
       \/ LET settledNow == SettledBetween(missions, missions')
          IN  /\ Cardinality(settledNow) <= 1
              /\ \A i \in 1..Len(missions) :
                     IsSettled(missions[i]) =>
                         \A j \in 1..Len(missions') :
                             missions'[j].id = missions[i].id => missions'[j] = missions[i]
              /\ \A i \in settledNow :
                     LET m == missions[i]
                         after == missions'[CHOOSE j \in 1..Len(missions') :
                                              missions'[j].id = m.id]
                     IN  /\ ~(after.completed /\ after.failed)
                         /\ progress_file' = up'
                         /\ IF after.completed
                            THEN /\ up'.xp = up.xp + m.rewards
                                 /\ up'.help_tickets = up.help_tickets
                                 /\ up'.tutorial_tickets = up.tutorial_tickets
                            ELSE /\ up' = ApplyPunishmentOp(up, m.punishment).up
                                 /\ m.punishment = Some(t_lose_20_xp) =>
                                        /\ up'.xp = Max(0, up.xp - 20)
                                        /\ up'.help_tickets = up.help_tickets
                                        /\ up'.tutorial_tickets = up.tutorial_tickets
                                 /\ m.punishment = NoText => up' = up
              /\ settledNow = {} => up' = up]_vars

OneRewardedOnePunished ==
    /\ last.op = "fail_mission"
    /\ last.outcome = "failed"
    /\ \E i, j \in 1..Len(missions) :
           /\ missions[i].completed
           /\ missions[j].failed
           /\ missions[j].punishment = Some(t_lose_20_xp)
    /\ up.xp = 30

\* C22: whatever sequence of add_xp, apply_punishment, use_help_ticket,
\* use_tutorial_ticket and reset_tickets a fresh progress goes through, xp is
\* never negative, level is at least 1, help_tickets stays within 0..3 and
\* tutorial_tickets within 0..2.
ProgressStaysInRange ==
    /\ up.xp >= 0
    /\ up.level >= 1
    /\ up.help_tickets >= 0
    /\ up.help_tickets <= 3
    /\ up.tutorial_tickets >= 0
    /\ up.tutorial_tickets <= 2

ResetFromNoTickets ==
    /\ last.op = "reset_tickets"
    /\ last.old_up.help_tickets = 0
    /\ last.old_up.tutorial_tickets = 0
    /\ last.old_up.xp = 0
    /\ up.help_tickets = 3
    /\ up.tutorial_tickets = 2

----------------------------------------------------------------------------
(* What the claims about tickets and debts are stated over *)

DebtIds(ds) == {ds[i].id : i \in 1..Len(ds)}

\* ds with one more debt at the end: outstanding, of this type, for this purpose
OneNewDebt(ds, after, ticket_type, used_for) ==
    /\ Len(after) = Len(ds) + 1
    /\ \A i \in 1..Len(ds) : after[i] = ds[i]
    /\ after[Len(after)].ticket_type = ticket_type
    /\ after[Len(after)].used_for = used_for
    /\ ~after[Len(after)].cleared
    /\ ~after[Len(after)].insight_entry.some
    /\ after[Len(after)].id \notin DebtIds(ds)

\* C23: a use-help-ticket (use-tutorial-ticket) step with a ticket left and a
\* non-empty purpose takes one ticket of that type, leaves the other counter
\* alone and appends exactly one outstanding debt of that type; refused (no
\* ticket) or cancelled (no purpose) it changes neither progress nor debts; no
\* other step (a failed mission's ticket punishment, the reset at a start)
\* changes the debts.  So the debts of each type count the successful uses.
OneDebtPerTicketUsed ==
    [][/\ last'.op = "use_help_ticket_gui" =>
              IF up.help_tickets > 0 /\ last'.text.some /\ last'.text.val # <<>>
              THEN /\ up'.help_tickets = up.help_tickets - 1
                   /\ up'.tutorial_tickets = up.tutorial_tickets
                   /\ OneNewDebt(debts, debts', "Help", last'.text.val)
              ELSE up' = up /\ debts' = debts
       /\ last'.op = "use_tutorial_ticket_gui" =>
              IF up.tutorial_tickets > 0 /\ last'.text.some /\ last'.text.val # <<>>
              THEN /\ up'.tutorial_tickets = up.tutorial_tickets - 1
                   /\ up'.help_tickets = up.help_tickets
                   /\ OneNewDebt(debts, debts', "Tutorial", last'.text.val)
              ELSE up' = up /\ debts' = debts
       /\ last'.op \notin {"use_help_ticket_gui", "use_tutorial_ticket_gui"} =>
              debts' = debts]_vars

TicketsLostAndRestoredBesideDebts ==
    /\ last.op = "startup"
    /\ last.outcome = "reset"
    /\ last.old_up.help_tickets = 0
    /\ up.help_tickets = 3
    /\ Len(debts) = 2
    /\ debts[1].ticket_type = "Help"
    /\ debts[2].ticket_type = "Tutorial"
    /\ \E i \in 1..Len(missions) : missions[i].failed

\* C24: get_active_missions returns exactly the stored missions that are
\* neither completed nor failed, in their order, and every stored mission is in
\* exactly one of the groups active, completed, failed.
ActiveMissionsAreUnsettled ==
    /\ GetActiveMissions(missions) = SelectSeq(missions, LAMBDA m : ~IsSettled(m))
    /\ \A i \in 1..Len(missions) : ~(missions[i].completed /\ missions[i].failed)

====
